---- MODULE Spec2Model ----
(***************************************************************************)
(* Job dispatch of the ConvertX API server.                                *)
(*                                                                         *)
(* Two generations of the job store live in the repository:                *)
(*   - services/dispatcher.rs: ConversionDispatcher with its private       *)
(*     JobStore { jobs, user_jobs } of models/job.rs ConversionJob         *)
(*     records (variable job_store);                                       *)
(*   - job.rs: JobStore { jobs } of models.rs Job records, driven by       *)
(*     handlers.rs and graphql.rs (variable jobs).                         *)
(* Every public operation of a store is one action; an operation runs      *)
(* under the store's lock, so it is one atomic step.  The read operations  *)
(* and the read handlers are operators of the store's value.               *)
(*                                                                         *)
(* SpecServer is the execution path of handlers.rs over the job.rs store:  *)
(* create_conversion, the process_conversion task step by step, GraphQL    *)
(* cancel_job, the sweep and the clock.  SpecRegistry is the engine table  *)
(* of services/engine_registry.rs with validate_conversion over it.        *)
(* SpecSweeper is the job.rs store under cleanup_old_jobs, SpecRoutes is   *)
(* POST /jobs of routes/jobs.rs, and SpecAdmin is POST /admin/cleanup of   *)
(* routes/admin.rs over the files of the upload and output directories.    *)
(***************************************************************************)
EXTENDS Naturals, Integers, Sequences, FiniteSets, TLC

VARIABLES
    now,        \* chrono::Utc::now(), in hours
    issued,     \* how many ids Uuid::new_v4() has handed out
    job_store,  \* dispatcher.rs JobStore: [jobs, user_jobs]
    jobs,       \* job.rs JobStore.jobs
    created,    \* history: id -> the arguments its create was called with
    removed,    \* history: the ids whose record a delete or a sweep removed
    ret,        \* the last call: its operation, arguments and return value
    tasks,      \* handlers.rs: the process_conversion tasks tokio::spawn started
    cancelling, \* graphql.rs: the cancel_job calls between get_job and fail_job
    backend_calls, \* history: job id -> requests sent to the conversion backend
    engines,    \* engine_registry.rs EngineRegistry.engines: id -> Engine
    order,      \* the iteration order of the engines HashMap
    files,      \* routes/admin.rs: the files under upload_dir and output_dir
    sweeps      \* routes/admin.rs: the run_cleanup calls and where each stands

vars == <<now, issued, job_store, jobs, created, removed, ret, tasks, cancelling, backend_calls, engines, order, files, sweeps>>

\* The variables of the execution path and of the engine registry.
serverVars == <<tasks, cancelling, backend_calls>>

registryVars == <<engines, order>>

\* The files of the upload and output directories, and the cleanups run.
adminVars == <<files, sweeps>>

\* ------------------------------------------------------------ bounds

\* The number of jobs created in one run.
MaxJobs == 2

\* The number of jobs created in one run of the job.rs store.
MaxStoreJobs == 1

\* The number of conversions submitted in one run of the server.
MaxServerJobs == 1

\* The number of jobs the sweeps run over.
MaxSweepJobs == 2

\* The number of jobs created through POST /jobs in one run.
MaxRouteJobs == 1

\* The number of files under the upload and output directories, and the
\* number of POST /admin/cleanup calls that pass the checks.
MaxFiles == 2

MaxSweeps == 2

\* The hours the clock runs for.
MaxClock == 1

\* The number of RandomState seeds (iteration orders) of the engines map.
MaxSeeds == 2

\* ------------------------------------------------------------ values

\* Option<T>: None, Some(x).
None == <<>>

Some(x) == <<x>>

is_some(o) == o # <<>>

\* HashMap::insert / entry: the map with k bound to v.
Put(m, k, v) == [x \in (DOMAIN m) \cup {k} |-> IF x = k THEN v ELSE m[x]]

\* HashMap::remove: the map without k.
Remove(m, k) == [x \in (DOMAIN m) \ {k} |-> m[x]]

\* HashMap::get: Some(m[k]) or None.
Get(m, k) == IF k \in DOMAIN m THEN Some(m[k]) ELSE None

\* Caller identities (the authentication layer's output).
Users == {"alice", "bob"}

\* JobStatus.
JobStatus == {"Pending", "Processing", "Completed", "Failed"}

\* The ids an operation may be called with: issued ones and unknown ones.
JobIds == 1..MaxJobs

\* The submissions callers make: who, which file, which conversion.
Requests ==
    { [user_id |-> "alice", original_filename |-> "report.md",
       source_format |-> "md", target_format |-> "pdf",
       engine |-> "pandoc", options |-> None],
      [user_id |-> "bob", original_filename |-> "photo.png",
       source_format |-> "png", target_format |-> "jpg",
       engine |-> "imagemagick", options |-> Some("quality=80")] }

\* Output file names and error messages the execution path reports.
OutputNames == {"out.pdf"}

ErrorMessages == {"backend timeout"}

\* ------------------------------------------------ models/job.rs

\* Faulty variant of ConversionJob_new: the two format arguments, both
\* Strings, passed in each other's place.
ConversionJob_new_SwappedFormats(id, t, user_id, original_filename, source_format, target_format, engine, options) ==
    [ id |-> id,
      user_id |-> user_id,
      original_filename |-> original_filename,
      source_format |-> target_format,
      target_format |-> source_format,
      engine |-> engine,
      status |-> "Pending",
      output_filename |-> None,
      error_message |-> None,
      created_at |-> t,
      completed_at |-> None,
      options |-> options ]

ConversionJob_new(id, t, user_id, original_filename, source_format, target_format, engine, options) ==
    [ id |-> id,
      user_id |-> user_id,
      original_filename |-> original_filename,
      source_format |-> source_format,
      target_format |-> target_format,
      engine |-> engine,
      status |-> "Pending",
      output_filename |-> None,
      error_message |-> None,
      created_at |-> t,
      completed_at |-> None,
      options |-> options ]

set_processing(job) == [job EXCEPT !.status = "Processing"]

set_completed(job, output_filename, t) ==
    [job EXCEPT !.status = "Completed",
                !.output_filename = Some(output_filename),
                !.completed_at = Some(t)]

\* Faulty variant of set_failed: the options are dropped with the failure.
set_failed_DropOptions(job, error_message, t) ==
    [job EXCEPT !.status = "Failed",
                !.error_message = Some(error_message),
                !.completed_at = Some(t),
                !.options = None]

set_failed(job, error_message, t) ==
    [job EXCEPT !.status = "Failed",
                !.error_message = Some(error_message),
                !.completed_at = Some(t)]

\* ------------------------------------------- services/dispatcher.rs

\* JobStore::default().
JobStore_default == [jobs |-> <<>>, user_jobs |-> <<>>]

\* impl Clone for ConversionDispatcher: the job store of the handle that
\* clone returns for a dispatcher whose job store is s.
ConversionDispatcher_clone(s) == JobStore_default

\* create_job: the new store and the job returned.
Dispatcher_create_job(s, id, t, user_id, original_filename, source_format, target_format, engine, options) ==
    LET job == ConversionJob_new(id, t, user_id, original_filename,
                                 source_format, target_format, engine, options)
        ids == IF user_id \in DOMAIN s.user_jobs THEN s.user_jobs[user_id] ELSE <<>>
    IN [ store |-> [ jobs |-> Put(s.jobs, id, job),
                     user_jobs |-> Put(s.user_jobs, user_id, Append(ids, id)) ],
         ret |-> job ]

Dispatcher_get_job(s, job_id) == Get(s.jobs, job_id)

\* Faulty variant of get_user_job: the filter on user_id left out.
Dispatcher_get_user_job_NoFilter(s, job_id, user_id) == Get(s.jobs, job_id)

Dispatcher_get_user_job(s, job_id, user_id) ==
    IF job_id \in DOMAIN s.jobs /\ s.jobs[job_id].user_id = user_id
    THEN Some(s.jobs[job_id])
    ELSE None

\* Faulty variant of list_user_jobs: the jobs of the whole map, whoever owns
\* them.
Dispatcher_list_user_jobs_AllOwners(s, user_id) ==
    LET present(id) == id \in DOMAIN s.jobs
        ids == SelectSeq([i \in 1..MaxJobs |-> i], present)
    IN [i \in DOMAIN ids |-> s.jobs[ids[i]]]

Dispatcher_list_user_jobs(s, user_id) ==
    IF user_id \in DOMAIN s.user_jobs
    THEN LET present(id) == id \in DOMAIN s.jobs
             ids == SelectSeq(s.user_jobs[user_id], present)
         IN [i \in DOMAIN ids |-> s.jobs[ids[i]]]
    ELSE <<>>

Dispatcher_update_job_status(s, job_id, status, t) ==
    IF job_id \in DOMAIN s.jobs
    THEN LET job == s.jobs[job_id]
             job1 == [job EXCEPT !.status = status]
             job2 == IF status \in {"Completed", "Failed"}
                     THEN [job1 EXCEPT !.completed_at = Some(t)]
                     ELSE job1
         IN [s EXCEPT !.jobs = Put(s.jobs, job_id, job2)]
    ELSE s

Dispatcher_complete_job(s, job_id, output_filename, t) ==
    IF job_id \in DOMAIN s.jobs
    THEN [s EXCEPT !.jobs = Put(s.jobs, job_id,
                                set_completed(s.jobs[job_id], output_filename, t))]
    ELSE s

Dispatcher_fail_job(s, job_id, error_message, t) ==
    IF job_id \in DOMAIN s.jobs
    THEN [s EXCEPT !.jobs = Put(s.jobs, job_id,
                                set_failed(s.jobs[job_id], error_message, t))]
    ELSE s

\* Faulty variant of delete_job: the ownership check left out.
Dispatcher_delete_job_NoOwnerCheck(s, job_id, user_id) ==
    IF job_id \notin DOMAIN s.jobs THEN [store |-> s, ret |-> FALSE]
    ELSE LET other(id) == id # job_id
             index == IF user_id \in DOMAIN s.user_jobs
                      THEN Put(s.user_jobs, user_id,
                               SelectSeq(s.user_jobs[user_id], other))
                      ELSE s.user_jobs
         IN [ store |-> [jobs |-> Remove(s.jobs, job_id), user_jobs |-> index],
              ret |-> TRUE ]

\* Faulty variant of delete_job: the record removed, its index entry left.
Dispatcher_delete_job_StaleIndex(s, job_id, user_id) ==
    IF job_id \notin DOMAIN s.jobs THEN [store |-> s, ret |-> FALSE]
    ELSE IF s.jobs[job_id].user_id # user_id THEN [store |-> s, ret |-> FALSE]
    ELSE [ store |-> [jobs |-> Remove(s.jobs, job_id), user_jobs |-> s.user_jobs],
           ret |-> TRUE ]

\* delete_job: the new store and the bool returned.
Dispatcher_delete_job(s, job_id, user_id) ==
    IF job_id \notin DOMAIN s.jobs THEN [store |-> s, ret |-> FALSE]
    ELSE IF s.jobs[job_id].user_id # user_id THEN [store |-> s, ret |-> FALSE]
    ELSE LET other(id) == id # job_id
             index == IF user_id \in DOMAIN s.user_jobs
                      THEN Put(s.user_jobs, user_id,
                               SelectSeq(s.user_jobs[user_id], other))
                      ELSE s.user_jobs
         IN [ store |-> [jobs |-> Remove(s.jobs, job_id), user_jobs |-> index],
              ret |-> TRUE ]


\* ------------------------------------------------------- models.rs

\* chrono::Utc::now().timestamp(): seconds, with the clock counted in hours.
timestamp(t) == t * 3600

\* Job::new, with the id Uuid::new_v4() gave and the clock's value.
Job_new(id, t, user_id, original_filename, input_format, output_format, engine_id) ==
    [ job_id |-> id,
      user_id |-> user_id,
      original_filename |-> original_filename,
      input_format |-> input_format,
      output_format |-> output_format,
      engine_id |-> engine_id,
      status |-> "Pending",
      progress |-> 0,
      error_message |-> None,
      output_file |-> None,
      created_at |-> timestamp(t),
      updated_at |-> timestamp(t),
      completed_at |-> None ]

\* impl From<&Job> for JobStatusResponse.
JobStatusResponse_from(job) ==
    [ job_id |-> job.job_id,
      status |-> job.status,
      progress |-> job.progress,
      original_filename |-> job.original_filename,
      input_format |-> job.input_format,
      output_format |-> job.output_format,
      engine_id |-> job.engine_id,
      error_message |-> job.error_message,
      created_at |-> job.created_at,
      updated_at |-> job.updated_at,
      completed_at |-> job.completed_at,
      download_ready |-> (job.status = "Completed" /\ is_some(job.output_file)) ]

\* ---------------------------------------------------------- job.rs

\* u8::min(progress, 100).
min100(progress) == IF progress < 100 THEN progress ELSE 100

JobStore_create_job(m, job) == Put(m, job.job_id, job)

JobStore_get_job(m, job_id) == Get(m, job_id)

\* The Vec is in the HashMap's iteration order, which is unspecified: the
\* jobs returned, as a set.
JobStore_get_user_jobs(m, user_id) ==
    {m[id] : id \in {i \in DOMAIN m : m[i].user_id = user_id}}

JobStore_update_status(m, job_id, status, t) ==
    IF job_id \in DOMAIN m
    THEN LET job1 == [m[job_id] EXCEPT !.status = status,
                                       !.updated_at = timestamp(t)]
             job2 == IF status = "Completed"
                     THEN [job1 EXCEPT !.completed_at = Some(job1.updated_at)]
                     ELSE job1
         IN Put(m, job_id, job2)
    ELSE m

JobStore_update_progress(m, job_id, progress, t) ==
    IF job_id \in DOMAIN m
    THEN Put(m, job_id, [m[job_id] EXCEPT !.progress = min100(progress),
                                          !.updated_at = timestamp(t)])
    ELSE m

\* Faulty variant of complete_job: a job that is not in the map is entered
\* into it.
JobStore_complete_job_Upsert(m, job_id, output_file, t) ==
    LET job == IF job_id \in DOMAIN m THEN m[job_id]
               ELSE Job_new(job_id, t, "", "", "", "", "")
    IN Put(m, job_id, [job EXCEPT !.status = "Completed",
                                  !.progress = 100,
                                  !.output_file = Some(output_file),
                                  !.updated_at = timestamp(t),
                                  !.completed_at = Some(timestamp(t))])

\* Faulty variant of complete_job: progress is left as it was.
JobStore_complete_job_KeepProgress(m, job_id, output_file, t) ==
    IF job_id \in DOMAIN m
    THEN Put(m, job_id, [m[job_id] EXCEPT !.status = "Completed",
                                          !.output_file = Some(output_file),
                                          !.updated_at = timestamp(t),
                                          !.completed_at = Some(timestamp(t))])
    ELSE m

JobStore_complete_job(m, job_id, output_file, t) ==
    IF job_id \in DOMAIN m
    THEN Put(m, job_id, [m[job_id] EXCEPT !.status = "Completed",
                                          !.progress = 100,
                                          !.output_file = Some(output_file),
                                          !.updated_at = timestamp(t),
                                          !.completed_at = Some(timestamp(t))])
    ELSE m

JobStore_fail_job(m, job_id, error_message, t) ==
    IF job_id \in DOMAIN m
    THEN Put(m, job_id, [m[job_id] EXCEPT !.status = "Failed",
                                          !.error_message = Some(error_message),
                                          !.updated_at = timestamp(t)])
    ELSE m

JobStore_is_job_owner(m, job_id, user_id) ==
    IF job_id \in DOMAIN m THEN m[job_id].user_id = user_id ELSE FALSE

\* ----------------------------------------------------- handlers.rs

\* A handler's outcome: the error code (or "OK") and the body.
Outcome(code, body) == [code |-> code, body |-> body]

\* GET /api/v1/jobs/{job_id}.
get_job_status(m, user_id, job_id) ==
    IF job_id \notin DOMAIN m THEN Outcome("JOB_NOT_FOUND", None)
    ELSE IF m[job_id].user_id # user_id THEN Outcome("FORBIDDEN", None)
    ELSE Outcome("OK", Some(JobStatusResponse_from(m[job_id])))

\* GET /api/v1/jobs/{job_id}/download; can_download is the token's scope.
download_job_result(m, user_id, can_download, job_id) ==
    IF ~can_download THEN Outcome("FORBIDDEN", None)
    ELSE IF job_id \notin DOMAIN m THEN Outcome("JOB_NOT_FOUND", None)
    ELSE IF m[job_id].user_id # user_id THEN Outcome("FORBIDDEN", None)
    ELSE IF m[job_id].status # "Completed" THEN Outcome("JOB_NOT_READY", None)
    ELSE IF ~is_some(m[job_id].output_file) THEN Outcome("INTERNAL_ERROR", None)
    ELSE Outcome("OK", m[job_id].output_file)

\* ------------------------------------------------------ graphql.rs

\* QueryRoot::job(id): the query takes no caller.
QueryRoot_job(m, id) ==
    IF id \notin DOMAIN m THEN None
    ELSE LET job == m[id]
         IN Some([ id |-> job.job_id,
                   user_id |-> job.user_id,
                   original_filename |-> job.original_filename,
                   input_format |-> job.input_format,
                   output_format |-> job.output_format,
                   engine_id |-> job.engine_id,
                   status |-> job.status,
                   progress |-> job.progress,
                   error_message |-> job.error_message,
                   created_at |-> job.created_at,
                   updated_at |-> job.updated_at,
                   completed_at |-> job.completed_at,
                   download_ready |-> (job.status = "Completed" /\ is_some(job.output_file)) ])

\* -------------------------------------------------- routes/jobs.rs

\* GET /api/v1/jobs/{job_id}.
routes_get_job(s, user_id, job_id) ==
    LET found == Dispatcher_get_user_job(s, job_id, user_id)
    IN IF found = None THEN Outcome("JOB_NOT_FOUND", None)
       ELSE LET job == found[1]
            IN Outcome("OK", Some([ job |-> job,
                                    result_url |-> IF is_some(job.output_filename)
                                                   THEN Some(job_id) ELSE None ]))

\* GET /api/v1/jobs/{job_id}/result; file_exists is what the file system
\* answers for the output path.
routes_get_job_result(s, user_id, job_id, file_exists) ==
    LET found == Dispatcher_get_user_job(s, job_id, user_id)
    IN IF found = None THEN Outcome("JOB_NOT_FOUND", None)
       ELSE IF found[1].output_filename = None THEN Outcome("RESULT_NOT_READY", None)
       ELSE IF ~file_exists THEN Outcome("FILE_NOT_FOUND", None)
       ELSE Outcome("OK", found[1].output_filename)

\* ------------------------------------ services/engine_registry.rs

\* str::to_lowercase, on the format tokens the calls below are made with.
to_lowercase(s) ==
    CASE s = "MD" -> "md"
      [] s = "PDF" -> "pdf"
      [] s = "Pdf" -> "pdf"
      [] s = "HTML" -> "html"
      [] s = "DOCX" -> "docx"
      [] s = "Docx" -> "docx"
      [] OTHER -> s

\* Vec::contains.
contains(v, x) == \E i \in DOMAIN v : v[i] = x

\* Iterator::flatten over a sequence of Vecs.
RECURSIVE flatten(_)
flatten(vs) == IF vs = <<>> THEN <<>> ELSE Head(vs) \o flatten(Tail(vs))

\* Engine::new; name and description, which no lookup reads, are left out.
Engine_new(id, category) ==
    [id |-> id, category |-> category, conversions |-> <<>>, available |-> TRUE]

Engine_add_conversion(e, from, to_formats) ==
    [e EXCEPT !.conversions =
        Put(@, to_lowercase(from),
            [i \in DOMAIN to_formats |-> to_lowercase(to_formats[i])])]

\* Faulty variant of supports_conversion: the tokens compared as given.
Engine_supports_conversion_CaseSensitive(e, from, to) ==
    /\ from \in DOMAIN e.conversions
    /\ contains(e.conversions[from], to)

Engine_supports_conversion(e, from, to) ==
    /\ to_lowercase(from) \in DOMAIN e.conversions
    /\ contains(e.conversions[to_lowercase(from)], to_lowercase(to))

\* Faulty variant of output_formats_for: the key looked up as given.
Engine_output_formats_for_CaseSensitive(e, from) ==
    IF from \in DOMAIN e.conversions THEN e.conversions[from] ELSE <<>>

Engine_output_formats_for(e, from) ==
    IF to_lowercase(from) \in DOMAIN e.conversions
    THEN e.conversions[to_lowercase(from)]
    ELSE <<>>

\* A chain of add_conversion calls: convs is the sequence of <<from, to>>.
RECURSIVE with_conversions(_, _)
with_conversions(e, convs) ==
    IF convs = <<>> THEN e
    ELSE with_conversions(Engine_add_conversion(e, Head(convs)[1], Head(convs)[2]),
                          Tail(convs))

\* Faulty variant of register: an engine whose id is already in the map is
\* not replaced.
EngineRegistry_register_KeepExisting(m, engine) ==
    IF engine.id \in DOMAIN m THEN m ELSE Put(m, engine.id, engine)

EngineRegistry_register(m, engine) == Put(m, engine.id, engine)

EngineRegistry_get(m, id) == Get(m, id)

\* list: the engines in the map's iteration order ord.
EngineRegistry_list(m, ord) == [i \in DOMAIN ord |-> m[ord[i]]]

EngineRegistry_find_engines_for(m, ord, from, to) ==
    LET hit(e) == e.available /\ Engine_supports_conversion(e, from, to)
    IN SelectSeq(EngineRegistry_list(m, ord), hit)

\* get_targets_for: engine id -> its outputs for from, where not empty.
EngineRegistry_get_targets_for(m, from) ==
    LET ids == {id \in DOMAIN m :
                  /\ to_lowercase(from) \in DOMAIN m[id].conversions
                  /\ m[id].conversions[to_lowercase(from)] # <<>>}
    IN [id \in ids |-> m[id].conversions[to_lowercase(from)]]

\* register_default_engines: the nine engines, in registration order.
DefaultEngines ==
    << with_conversions(Engine_new("ffmpeg", "media"),
         << <<"mp4", <<"webm", "avi", "mkv", "mov", "mp3", "wav", "flac", "ogg", "gif">>>>,
            <<"webm", <<"mp4", "avi", "mkv", "mov", "mp3", "wav", "flac", "ogg", "gif">>>>,
            <<"avi", <<"mp4", "webm", "mkv", "mov", "mp3", "wav", "flac", "ogg", "gif">>>>,
            <<"mkv", <<"mp4", "webm", "avi", "mov", "mp3", "wav", "flac", "ogg", "gif">>>>,
            <<"mov", <<"mp4", "webm", "avi", "mkv", "mp3", "wav", "flac", "ogg", "gif">>>>,
            <<"mp3", <<"wav", "flac", "ogg", "m4a", "aac">>>>,
            <<"wav", <<"mp3", "flac", "ogg", "m4a", "aac">>>>,
            <<"flac", <<"mp3", "wav", "ogg", "m4a", "aac">>>>,
            <<"ogg", <<"mp3", "wav", "flac", "m4a", "aac">>>>,
            <<"m4a", <<"mp3", "wav", "flac", "ogg", "aac">>>>,
            <<"gif", <<"mp4", "webm">>>> >>),
       with_conversions(Engine_new("imagemagick", "image"),
         << <<"png", <<"jpg", "jpeg", "gif", "bmp", "webp", "tiff", "ico", "pdf">>>>,
            <<"jpg", <<"png", "gif", "bmp", "webp", "tiff", "ico", "pdf">>>>,
            <<"jpeg", <<"png", "gif", "bmp", "webp", "tiff", "ico", "pdf">>>>,
            <<"gif", <<"png", "jpg", "jpeg", "bmp", "webp", "tiff">>>>,
            <<"bmp", <<"png", "jpg", "jpeg", "gif", "webp", "tiff">>>>,
            <<"webp", <<"png", "jpg", "jpeg", "gif", "bmp", "tiff">>>>,
            <<"tiff", <<"png", "jpg", "jpeg", "gif", "bmp", "webp", "pdf">>>>,
            <<"svg", <<"png", "jpg", "jpeg", "pdf">>>> >>),
       with_conversions(Engine_new("libreoffice", "document"),
         << <<"doc", <<"pdf", "docx", "odt", "txt", "html">>>>,
            <<"docx", <<"pdf", "doc", "odt", "txt", "html">>>>,
            <<"odt", <<"pdf", "doc", "docx", "txt", "html">>>>,
            <<"xls", <<"pdf", "xlsx", "ods", "csv">>>>,
            <<"xlsx", <<"pdf", "xls", "ods", "csv">>>>,
            <<"ods", <<"pdf", "xls", "xlsx", "csv">>>>,
            <<"ppt", <<"pdf", "pptx", "odp">>>>,
            <<"pptx", <<"pdf", "ppt", "odp">>>>,
            <<"odp", <<"pdf", "ppt", "pptx">>>>,
            <<"txt", <<"pdf", "html">>>> >>),
       with_conversions(Engine_new("pandoc", "document"),
         << <<"md", <<"html", "pdf", "docx", "latex", "epub", "rst">>>>,
            <<"html", <<"md", "pdf", "docx", "latex", "epub">>>>,
            <<"latex", <<"pdf", "html", "md", "docx">>>>,
            <<"rst", <<"html", "pdf", "md", "docx">>>>,
            <<"epub", <<"pdf", "html", "md">>>> >>),
       with_conversions(Engine_new("calibre", "ebook"),
         << <<"epub", <<"mobi", "azw3", "pdf", "txt", "html">>>>,
            <<"mobi", <<"epub", "azw3", "pdf", "txt", "html">>>>,
            <<"azw3", <<"epub", "mobi", "pdf", "txt", "html">>>>,
            <<"pdf", <<"epub", "mobi", "txt", "html">>>> >>),
       with_conversions(Engine_new("mineru", "ai"),
         << <<"pdf", <<"md", "json", "html">>>> >>),
       with_conversions(Engine_new("pdfmathtranslate", "ai"),
         << <<"pdf", <<"pdf">>>> >>),
       with_conversions(Engine_new("ocrmypdf", "ai"),
         << <<"pdf", <<"pdf">>>> >>),
       with_conversions(Engine_new("dasel", "data"),
         << <<"json", <<"yaml", "toml", "xml", "csv">>>>,
            <<"yaml", <<"json", "toml", "xml">>>>,
            <<"toml", <<"json", "yaml", "xml">>>>,
            <<"xml", <<"json", "yaml">>>> >>) >>

\* EngineRegistry::new: the empty map with every default engine registered.
RECURSIVE register_all(_, _)
register_all(m, es) ==
    IF es = <<>> THEN m
    ELSE register_all(EngineRegistry_register(m, Head(es)), Tail(es))

EngineRegistry_new == register_all(<<>>, DefaultEngines)

\* The engine ids in String order (Ord for String), the ids the register
\* calls below add included.
EngineIdOrder ==
    << "calibre", "custom", "dasel", "ffmpeg", "imagemagick", "libreoffice",
       "mineru", "ocrmypdf", "pandoc", "pdfmathtranslate" >>

\* The ids of the set S in String order.
Sorted(S) == LET in_S(id) == id \in S IN SelectSeq(EngineIdOrder, in_S)

Reverse(v) == [i \in DOMAIN v |-> v[Len(v) + 1 - i]]

Rotate(v, k) == [i \in DOMAIN v |-> v[((i - 1 + k) % Len(v)) + 1]]

\* HashMap iteration order is fixed by the map's RandomState and its keys
\* and is otherwise unspecified: the order of the keys S under seed k.
HashOrder(S, k) ==
    IF S = {} THEN <<>>
    ELSE IF k % 2 = 0 THEN Rotate(Sorted(S), k \div 2)
    ELSE Rotate(Reverse(Sorted(S)), k \div 2)

\* ------------------------- services/dispatcher.rs: validation

\* ValidationResult.
Valid(engine) == [valid |-> TRUE, engine |-> engine]

Invalid(reason, suggestions) ==
    [valid |-> FALSE, reason |-> reason, suggestions |-> suggestions]

\* Faulty variant of validate_conversion: a registered preferred engine is
\* accepted without asking whether it supports the conversion.
validate_conversion_TrustPreferred(m, ord, from, to, engine) ==
    IF is_some(engine)
    THEN LET found == EngineRegistry_get(m, engine[1])
         IN IF is_some(found)
            THEN Valid(engine[1])
            ELSE Invalid(<<"not found", engine[1]>>,
                         [i \in DOMAIN ord |-> EngineRegistry_list(m, ord)[i].id])
    ELSE LET es == EngineRegistry_find_engines_for(m, ord, from, to)
             targets == EngineRegistry_get_targets_for(m, from)
             keys == LET has(id) == id \in DOMAIN targets IN SelectSeq(ord, has)
         IN IF es # <<>> THEN Valid(es[1].id)
            ELSE Invalid(<<"no engine supports", from, to>>,
                         flatten([i \in DOMAIN keys |-> targets[keys[i]]]))

\* Faulty variant of validate_conversion: a preferred engine that is not
\* registered is dropped and the engine chosen as if none was named.
validate_conversion_Fallback(m, ord, from, to, engine) ==
    LET found == IF is_some(engine) THEN EngineRegistry_get(m, engine[1]) ELSE None
    IN IF is_some(found)
       THEN IF Engine_supports_conversion(found[1], from, to)
            THEN Valid(engine[1])
            ELSE Invalid(<<"does not support", engine[1], from, to>>,
                         Engine_output_formats_for(found[1], from))
       ELSE LET es == EngineRegistry_find_engines_for(m, ord, from, to)
                targets == EngineRegistry_get_targets_for(m, from)
                keys == LET has(id) == id \in DOMAIN targets IN SelectSeq(ord, has)
            IN IF es # <<>> THEN Valid(es[1].id)
               ELSE Invalid(<<"no engine supports", from, to>>,
                            flatten([i \in DOMAIN keys |-> targets[keys[i]]]))

\* validate_conversion; engine is the Option<&str> of the preferred engine.
\* The reason is the message's text and the values formatted into it.  The
\* suggestions of the last branch come in the iteration order of the targets
\* map, unspecified as well: the registry's order is used for it, and the
\* properties below read these suggestions as a bag only.
validate_conversion(m, ord, from, to, engine) ==
    IF is_some(engine)
    THEN LET found == EngineRegistry_get(m, engine[1])
         IN IF is_some(found)
            THEN IF Engine_supports_conversion(found[1], from, to)
                 THEN Valid(engine[1])
                 ELSE Invalid(<<"does not support", engine[1], from, to>>,
                              Engine_output_formats_for(found[1], from))
            ELSE Invalid(<<"not found", engine[1]>>,
                         [i \in DOMAIN ord |-> EngineRegistry_list(m, ord)[i].id])
    ELSE LET es == EngineRegistry_find_engines_for(m, ord, from, to)
             targets == EngineRegistry_get_targets_for(m, from)
             keys == LET has(id) == id \in DOMAIN targets IN SelectSeq(ord, has)
         IN IF es # <<>> THEN Valid(es[1].id)
            ELSE Invalid(<<"no engine supports", from, to>>,
                         flatten([i \in DOMAIN keys |-> targets[keys[i]]]))

\* ------------------------------------------------------------ state

\* A call record: the operation, the job id and caller it was given, its
\* other argument, and what it returned.
Call(op, id, user, arg, val) == [op |-> op, id |-> id, user |-> user, arg |-> arg, val |-> val]

\* AppState::new and ConversionDispatcher::new: empty stores, no task.
InitStores ==
    /\ now = 0
    /\ issued = 0
    /\ job_store = JobStore_default
    /\ jobs = <<>>
    /\ created = <<>>
    /\ removed = {}
    /\ ret = Call("new", 0, "", None, None)
    /\ tasks = <<>>
    /\ cancelling = {}
    /\ backend_calls = <<>>

\* The job stores on their own: no operation of a store reads the engine
\* table, which is left out of the specifications of the stores.
Init ==
    /\ InitStores
    /\ engines = <<>>
    /\ order = <<>>
    /\ files = <<>>
    /\ sweeps = <<>>

\* EngineRegistry::new: the default engines, under any of the seeds of the
\* engines map.
InitRegistry ==
    /\ InitStores
    /\ engines = EngineRegistry_new
    /\ order \in {HashOrder(DOMAIN engines, k) : k \in 0..(MaxSeeds - 1)}
    /\ files = <<>>
    /\ sweeps = <<>>

\* ------------------------------------- actions of the dispatcher

\* routes/jobs.rs create_job -> ConversionDispatcher::create_job, with a
\* fresh Uuid::new_v4().
DispatcherCreateJob(req) ==
    /\ issued < MaxJobs
    /\ LET id == issued + 1
           r == Dispatcher_create_job(job_store, id, now, req.user_id,
                                      req.original_filename, req.source_format,
                                      req.target_format, req.engine, req.options)
       IN /\ job_store' = r.store
          /\ issued' = id
          /\ created' = Put(created, id, req)
          /\ ret' = Call("create_job", id, req.user_id, req, r.ret)
    /\ UNCHANGED <<now, jobs, removed, serverVars, registryVars, adminVars>>

DispatcherUpdateJobStatus(job_id, status) ==
    /\ job_store' = Dispatcher_update_job_status(job_store, job_id, status, now)
    /\ ret' = Call("update_job_status", job_id, "", status, None)
    /\ UNCHANGED <<now, issued, jobs, created, removed, serverVars, registryVars, adminVars>>

DispatcherCompleteJob(job_id, output_filename) ==
    /\ job_store' = Dispatcher_complete_job(job_store, job_id, output_filename, now)
    /\ ret' = Call("complete_job", job_id, "", output_filename, None)
    /\ UNCHANGED <<now, issued, jobs, created, removed, serverVars, registryVars, adminVars>>

DispatcherFailJob(job_id, error_message) ==
    /\ job_store' = Dispatcher_fail_job(job_store, job_id, error_message, now)
    /\ ret' = Call("fail_job", job_id, "", error_message, None)
    /\ UNCHANGED <<now, issued, jobs, created, removed, serverVars, registryVars, adminVars>>

DispatcherDeleteJob(job_id, user_id) ==
    /\ LET r == Dispatcher_delete_job(job_store, job_id, user_id)
       IN /\ job_store' = r.store
          /\ removed' = IF r.ret THEN removed \cup {job_id} ELSE removed
          /\ ret' = Call("delete_job", job_id, user_id, None, r.ret)
    /\ UNCHANGED <<now, issued, jobs, created, serverVars, registryVars, adminVars>>

NextDispatcher ==
    \/ \E req \in Requests : DispatcherCreateJob(req)
    \/ \E id \in JobIds, st \in JobStatus : DispatcherUpdateJobStatus(id, st)
    \/ \E id \in JobIds, f \in OutputNames : DispatcherCompleteJob(id, f)
    \/ \E id \in JobIds, m \in ErrorMessages : DispatcherFailJob(id, m)
    \/ \E id \in JobIds, u \in Users : DispatcherDeleteJob(id, u)

SpecDispatcher == Init /\ [][NextDispatcher]_vars

\* ---------------------------------- actions of the job.rs store

\* The ids the job.rs store's operations are called with.
StoreJobIds == 1..MaxStoreJobs

\* u8 arguments of update_progress: the one process_conversion passes, and
\* one above 100.
ProgressArgs == {10, 200}

\* handlers.rs create_conversion: Job::new, then JobStore::create_job.
StoreCreateJob(req) ==
    /\ issued < MaxStoreJobs
    /\ LET id == issued + 1
           job == Job_new(id, now, req.user_id, req.original_filename,
                          req.source_format, req.target_format, req.engine)
       IN /\ jobs' = JobStore_create_job(jobs, job)
          /\ issued' = id
          /\ created' = Put(created, id, req)
          /\ ret' = Call("create_job", id, req.user_id, req, job)
    /\ UNCHANGED <<now, job_store, removed, serverVars, registryVars, adminVars>>

StoreUpdateStatus(job_id, status) ==
    /\ jobs' = JobStore_update_status(jobs, job_id, status, now)
    /\ ret' = Call("update_status", job_id, "", status, Get(jobs', job_id))
    /\ UNCHANGED <<now, issued, job_store, created, removed, serverVars, registryVars, adminVars>>

StoreUpdateProgress(job_id, progress) ==
    /\ jobs' = JobStore_update_progress(jobs, job_id, progress, now)
    /\ ret' = Call("update_progress", job_id, "", progress, Get(jobs', job_id))
    /\ UNCHANGED <<now, issued, job_store, created, removed, serverVars, registryVars, adminVars>>

StoreCompleteJob(job_id, output_file) ==
    /\ jobs' = JobStore_complete_job(jobs, job_id, output_file, now)
    /\ ret' = Call("complete_job", job_id, "", output_file, Get(jobs', job_id))
    /\ UNCHANGED <<now, issued, job_store, created, removed, serverVars, registryVars, adminVars>>

StoreFailJob(job_id, error_message) ==
    /\ jobs' = JobStore_fail_job(jobs, job_id, error_message, now)
    /\ ret' = Call("fail_job", job_id, "", error_message, Get(jobs', job_id))
    /\ UNCHANGED <<now, issued, job_store, created, removed, serverVars, registryVars, adminVars>>

NextStore ==
    \/ \E req \in Requests : StoreCreateJob(req)
    \/ \E id \in StoreJobIds, st \in JobStatus : StoreUpdateStatus(id, st)
    \/ \E id \in StoreJobIds, p \in ProgressArgs : StoreUpdateProgress(id, p)
    \/ \E id \in StoreJobIds, f \in OutputNames : StoreCompleteJob(id, f)
    \/ \E id \in StoreJobIds, m \in ErrorMessages : StoreFailJob(id, m)

SpecStore == Init /\ [][NextStore]_vars

\* --------------------------- actions of the server (handlers.rs)

\* Path::file_stem of the uploaded files.
file_stem(name) ==
    CASE name = "report.md" -> "report"
      [] name = "photo.png" -> "photo"
      [] OTHER -> "output"

\* call_backend_convert's Ok value: output_dir/<job id>/<stem>.<format>.
output_path(job_id, input_name, output_format) ==
    <<"output", job_id, file_stem(input_name), output_format>>

\* What one call_backend_convert can come to: the input file unreadable
\* (no request is sent), the request failing (network, timeout), a status
\* that is not a success, the body unreadable, the output file unwritable,
\* or the output written.
BackendOutcomes ==
    { "read_input_failed", "request_failed", "status_not_success",
      "read_response_failed", "write_output_failed", "ok" }

\* An ApiError carrying a message, and its Display.
ApiError(msg) == <<"ApiError", msg>>

to_string(e) == e[2]

\* call_backend_convert: Result<String, ApiError> for an outcome.
call_backend_convert(job, outcome) ==
    IF outcome = "ok"
    THEN [ok |-> TRUE, val |-> output_path(job.job_id, job.original_filename, job.output_format)]
    ELSE [ok |-> FALSE, val |-> ApiError(outcome)]

\* Faulty variant of cleanup_old_jobs: a job created exactly at the cutoff is
\* removed too.
JobStore_cleanup_old_jobs_Inclusive(m, hours, t) ==
    LET cutoff == timestamp(t) - (hours * 3600)
        old_jobs == {id \in DOMAIN m : m[id].created_at <= cutoff}
    IN [ store |-> [id \in (DOMAIN m) \ old_jobs |-> m[id]],
         ret |-> Cardinality(old_jobs) ]

\* cleanup_old_jobs: the map without the jobs created before the cutoff,
\* and how many were removed.
JobStore_cleanup_old_jobs(m, hours, t) ==
    LET cutoff == timestamp(t) - (hours * 3600)
        old_jobs == {id \in DOMAIN m : m[id].created_at < cutoff}
    IN [ store |-> [id \in (DOMAIN m) \ old_jobs |-> m[id]],
         ret |-> Cardinality(old_jobs) ]

\* A process_conversion task: the job it was spawned for, where it stands,
\* and the Result it has recorded.
Task(job_id, pc, result) == [job_id |-> job_id, pc |-> pc, result |-> result]

ServerJobIds == 1..MaxServerJobs

\* The retention, in hours, cleanup_old_jobs is called with.
SweepHours == {0, 1}

\* Faulty variant of create_conversion: the handler runs the first step of
\* process_conversion itself before it answers.
CreateConversion_Awaiting(req, saved) ==
    /\ issued < MaxServerJobs
    /\ LET id == issued + 1
           job == Job_new(id, now, req.user_id, req.original_filename,
                          req.source_format, req.target_format, req.engine)
           stored == JobStore_create_job(jobs, job)
       IN /\ jobs' = IF saved THEN JobStore_update_status(stored, id, "Processing", now)
                     ELSE stored
          /\ issued' = id
          /\ created' = Put(created, id, req)
          /\ tasks' = IF saved THEN Append(tasks, Task(id, "update_progress", None))
                      ELSE tasks
          /\ ret' = Call("create_conversion", id, req.user_id, req,
                         IF saved THEN "pending" ELSE "INTERNAL_ERROR")
    /\ UNCHANGED <<now, job_store, removed, cancelling, backend_calls, registryVars, adminVars>>

\* create_conversion: Job::new and create_job, then the upload is saved;
\* when that fails the handler returns the error, otherwise it spawns
\* process_conversion and answers without waiting for it.
CreateConversion(req, saved) ==
    /\ issued < MaxServerJobs
    /\ LET id == issued + 1
           job == Job_new(id, now, req.user_id, req.original_filename,
                          req.source_format, req.target_format, req.engine)
       IN /\ jobs' = JobStore_create_job(jobs, job)
          /\ issued' = id
          /\ created' = Put(created, id, req)
          /\ tasks' = IF saved THEN Append(tasks, Task(id, "update_status", None))
                      ELSE tasks
          /\ ret' = Call("create_conversion", id, req.user_id, req,
                         IF saved THEN "pending" ELSE "INTERNAL_ERROR")
    /\ UNCHANGED <<now, job_store, removed, cancelling, backend_calls, registryVars, adminVars>>

\* process_conversion: update_status(job_id, Processing).
ProcessUpdateStatus(k) ==
    /\ tasks[k].pc = "update_status"
    /\ jobs' = JobStore_update_status(jobs, tasks[k].job_id, "Processing", now)
    /\ tasks' = [tasks EXCEPT ![k].pc = "update_progress"]
    /\ ret' = Call("process_conversion", tasks[k].job_id, "", "update_status", None)
    /\ UNCHANGED <<now, issued, job_store, created, removed, cancelling, backend_calls, registryVars, adminVars>>

\* process_conversion: update_progress(job_id, 10).
ProcessUpdateProgress(k) ==
    /\ tasks[k].pc = "update_progress"
    /\ jobs' = JobStore_update_progress(jobs, tasks[k].job_id, 10, now)
    /\ tasks' = [tasks EXCEPT ![k].pc = "convert"]
    /\ ret' = Call("process_conversion", tasks[k].job_id, "", "update_progress", None)
    /\ UNCHANGED <<now, issued, job_store, created, removed, cancelling, backend_calls, registryVars, adminVars>>

\* process_conversion: create_dir_all fails, fail_job, return.
ProcessCreateDirFailed(k) ==
    /\ tasks[k].pc = "convert"
    /\ LET r == [ok |-> FALSE, val |-> ApiError("create_output_dir_failed")]
       IN /\ jobs' = JobStore_fail_job(jobs, tasks[k].job_id, to_string(r.val), now)
          /\ tasks' = [tasks EXCEPT ![k].pc = "done", ![k].result = Some(r)]
          /\ ret' = Call("process_conversion", tasks[k].job_id, "", "fail_job", r)
    /\ UNCHANGED <<now, issued, job_store, created, removed, cancelling, backend_calls, registryVars, adminVars>>

\* Faulty variant of ProcessConvert: an Err of the backend leaves the task
\* where it is, to call the backend again.
ProcessConvert_Retry(k, outcome) ==
    /\ tasks[k].pc = "convert"
    /\ LET id == tasks[k].job_id
           job == created[id]
           r == call_backend_convert(
                    [job_id |-> id, original_filename |-> job.original_filename,
                     output_format |-> job.target_format], outcome)
           sent == IF outcome = "read_input_failed" THEN 0 ELSE 1
           calls == IF id \in DOMAIN backend_calls THEN backend_calls[id] ELSE 0
       IN /\ backend_calls' = Put(backend_calls, id, calls + sent)
          /\ jobs' = IF r.ok THEN JobStore_complete_job(jobs, id, r.val, now)
                     ELSE jobs
          /\ tasks' = IF r.ok
                      THEN [tasks EXCEPT ![k].pc = "done", ![k].result = Some(r)]
                      ELSE tasks
          /\ ret' = Call("process_conversion", id, "",
                         IF r.ok THEN "complete_job" ELSE "retry", r)
    /\ UNCHANGED <<now, issued, job_store, created, removed, cancelling, registryVars, adminVars>>

\* process_conversion: create_dir_all succeeds, call_backend_convert runs
\* with the task's own input path and output format, and its Result is
\* recorded with complete_job or fail_job.
ProcessConvert(k, outcome) ==
    /\ tasks[k].pc = "convert"
    /\ LET id == tasks[k].job_id
           job == created[id]
           r == call_backend_convert(
                    [job_id |-> id, original_filename |-> job.original_filename,
                     output_format |-> job.target_format], outcome)
           sent == IF outcome = "read_input_failed" THEN 0 ELSE 1
           calls == IF id \in DOMAIN backend_calls THEN backend_calls[id] ELSE 0
       IN /\ backend_calls' = Put(backend_calls, id, calls + sent)
          /\ jobs' = IF r.ok THEN JobStore_complete_job(jobs, id, r.val, now)
                     ELSE JobStore_fail_job(jobs, id, to_string(r.val), now)
          /\ tasks' = [tasks EXCEPT ![k].pc = "done", ![k].result = Some(r)]
          /\ ret' = Call("process_conversion", id, "",
                         IF r.ok THEN "complete_job" ELSE "fail_job", r)
    /\ UNCHANGED <<now, issued, job_store, created, removed, cancelling, registryVars, adminVars>>

\* graphql.rs cancel_job, first half: get_job; false unless it is Pending.
CancelJobGet(id) ==
    /\ id \notin cancelling
    /\ LET pending == id \in DOMAIN jobs /\ jobs[id].status = "Pending"
       IN /\ cancelling' = IF pending THEN cancelling \cup {id} ELSE cancelling
          /\ ret' = Call("cancel_job", id, "", "get_job", IF pending THEN None ELSE Some(FALSE))
    /\ UNCHANGED <<now, issued, job_store, jobs, created, removed, tasks, backend_calls, registryVars, adminVars>>

\* graphql.rs cancel_job, second half: fail_job, then true.
CancelJobFail(id) ==
    /\ id \in cancelling
    /\ jobs' = JobStore_fail_job(jobs, id, "cancelled", now)
    /\ cancelling' = cancelling \ {id}
    /\ ret' = Call("cancel_job", id, "", "fail_job", Some(TRUE))
    /\ UNCHANGED <<now, issued, job_store, created, removed, tasks, backend_calls, registryVars, adminVars>>

\* The sweeper: cleanup_old_jobs(hours).
CleanupOldJobs(hours) ==
    /\ LET r == JobStore_cleanup_old_jobs(jobs, hours, now)
       IN /\ jobs' = r.store
          /\ removed' = removed \cup ((DOMAIN jobs) \ (DOMAIN r.store))
          /\ ret' = Call("cleanup_old_jobs", 0, "", hours, r.ret)
    /\ UNCHANGED <<now, issued, job_store, created, serverVars, registryVars, adminVars>>

\* An hour passes.
Tick ==
    /\ now < MaxClock
    /\ now' = now + 1
    /\ ret' = Call("tick", 0, "", None, None)
    /\ UNCHANGED <<issued, job_store, jobs, created, removed, serverVars, registryVars, adminVars>>

NextServer ==
    \/ \E req \in Requests, saved \in BOOLEAN : CreateConversion(req, saved)
    \/ \E k \in DOMAIN tasks : ProcessUpdateStatus(k)
    \/ \E k \in DOMAIN tasks : ProcessUpdateProgress(k)
    \/ \E k \in DOMAIN tasks : ProcessCreateDirFailed(k)
    \/ \E k \in DOMAIN tasks, o \in BackendOutcomes : ProcessConvert(k, o)
    \/ \E id \in ServerJobIds : CancelJobGet(id)
    \/ \E id \in ServerJobIds : CancelJobFail(id)
    \/ \E h \in SweepHours : CleanupOldJobs(h)
    \/ Tick

SpecServer == Init /\ [][NextServer]_vars

\* The next step of the process_conversion task tasks[k], whatever the
\* storage and the backend answer.
ProcessStep(k) ==
    /\ k \in DOMAIN tasks
    /\ \/ ProcessUpdateStatus(k)
       \/ ProcessUpdateProgress(k)
       \/ ProcessCreateDirFailed(k)
       \/ \E o \in BackendOutcomes : ProcessConvert(k, o)

\* The server under the runtime's scheduling: a spawned task that can take
\* its next step eventually takes it (the backend call returns or times
\* out), and a cancel_job that has read the job goes on to its fail_job.
SpecServerFair ==
    /\ SpecServer
    /\ \A k \in 1..MaxServerJobs : WF_vars(ProcessStep(k))
    /\ \A id \in ServerJobIds : WF_vars(CancelJobFail(id))

\* ------------------------------- actions of the GraphQL mutations

\* graphql.rs delete_job, sent by caller: the store has no removal, the
\* answer is false whether the job exists or not.
MutationDeleteJob(caller, id) ==
    /\ ret' = Call("delete_job", id, caller, None, FALSE)
    /\ UNCHANGED <<now, issued, job_store, jobs, created, removed, serverVars, registryVars, adminVars>>

\* graphql.rs cancel_job, sent by caller, when nothing runs between its
\* get_job and its fail_job: the handler reads no caller from its context.
MutationCancelJob(caller, id) ==
    /\ LET pending == id \in DOMAIN jobs /\ jobs[id].status = "Pending"
       IN /\ jobs' = IF pending THEN JobStore_fail_job(jobs, id, "cancelled", now) ELSE jobs
          /\ ret' = Call("cancel_job", id, caller, None, pending)
    /\ UNCHANGED <<now, issued, job_store, created, removed, serverVars, registryVars, adminVars>>

\* The job.rs store with the mutations of the GraphQL schema on it.
NextGraphql ==
    \/ NextStore
    \/ \E u \in Users, id \in StoreJobIds : MutationDeleteJob(u, id)
    \/ \E u \in Users, id \in StoreJobIds : MutationCancelJob(u, id)

SpecGraphql == Init /\ [][NextGraphql]_vars

\* ------------------------------------- actions of the sweeper

SweeperJobIds == 1..MaxSweepJobs

\* The submissions the swept jobs come from: cleanup_old_jobs reads
\* created_at only, one caller's submissions are enough.
SweeperRequests == {req \in Requests : req.user_id = "alice"}

\* Faulty variant of create_job: the id is the least one no stored job has,
\* so the id of a swept job is handed out again.
SweeperCreateJob_ReuseId(req) ==
    /\ \E free \in SweeperJobIds : free \notin DOMAIN jobs
    /\ LET id == CHOOSE free \in SweeperJobIds :
                    /\ free \notin DOMAIN jobs
                    /\ \A other \in SweeperJobIds : other \notin DOMAIN jobs => free <= other
           job == Job_new(id, now, req.user_id, req.original_filename,
                          req.source_format, req.target_format, req.engine)
       IN /\ jobs' = JobStore_create_job(jobs, job)
          /\ issued' = IF id > issued THEN id ELSE issued
          /\ created' = Put(created, id, req)
          /\ ret' = Call("create_job", id, req.user_id, req, job)
    /\ UNCHANGED <<now, job_store, removed, serverVars, registryVars, adminVars>>

\* Job::new and JobStore::create_job, for the jobs a sweep finds.
SweeperCreateJob(req) ==
    /\ issued < MaxSweepJobs
    /\ LET id == issued + 1
           job == Job_new(id, now, req.user_id, req.original_filename,
                          req.source_format, req.target_format, req.engine)
       IN /\ jobs' = JobStore_create_job(jobs, job)
          /\ issued' = id
          /\ created' = Put(created, id, req)
          /\ ret' = Call("create_job", id, req.user_id, req, job)
    /\ UNCHANGED <<now, job_store, removed, serverVars, registryVars, adminVars>>

\* The job.rs store with jobs of every status and age, and the sweeps.
NextSweeper ==
    \/ \E req \in SweeperRequests : SweeperCreateJob(req)
    \/ \E id \in SweeperJobIds, st \in JobStatus : StoreUpdateStatus(id, st)
    \/ \E h \in SweepHours : CleanupOldJobs(h)
    \/ Tick

SpecSweeper == Init /\ [][NextSweeper]_vars

\* ------------------------------------- actions of the registry

\* The engines register is called with: pandoc built again with one
\* conversion, given in capitals to add_conversion; an engine whose
\* conversions field (pub) was filled without add_conversion; a default
\* engine with available (pub) set to false.
RegisterArgs ==
    { Engine_add_conversion(Engine_new("pandoc", "document"), "MD", <<"HTML", "PDF">>),
      [Engine_new("custom", "document") EXCEPT
           !.conversions = ("md" :> <<"DOCX">>) @@ ("PDF" :> <<"docx">>)],
      [EngineRegistry_new["ocrmypdf"] EXCEPT !.available = FALSE] }

\* The arguments validate_conversion is called with.
FromArgs == {"md", "MD", "pdf", "xyz"}

ToArgs == {"pdf", "Pdf", "docx", "DOCX", "zzz"}

EngineArgs == {None, Some("pandoc"), Some("ocrmypdf"), Some("custom"), Some("nosuch")}

\* EngineRegistry::register; a new key may change the map's iteration order.
RegistryRegister(engine) ==
    /\ engines' = EngineRegistry_register(engines, engine)
    /\ IF engine.id \in DOMAIN engines
       THEN order' = order
       ELSE order' \in {HashOrder(DOMAIN engines', k) : k \in 0..(MaxSeeds - 1)}
    /\ ret' = Call("register", 0, "", engine.id, None)
    /\ UNCHANGED <<now, issued, job_store, jobs, created, removed, serverVars, adminVars>>

\* Faulty variant of validate_conversion: a preferred engine that turns out
\* not to support the pair is marked unavailable in the table.
RegistryValidate_Disabling(from, to, engine) ==
    LET result == validate_conversion(engines, order, from, to, engine)
        refused == /\ is_some(engine)
                   /\ engine[1] \in DOMAIN engines
                   /\ ~result.valid
    IN /\ ret' = Call("validate_conversion", 0, "",
                      [from |-> from, to |-> to, engine |-> engine], result)
       /\ engines' = IF refused
                     THEN [engines EXCEPT ![engine[1]].available = FALSE]
                     ELSE engines
       /\ UNCHANGED <<now, issued, job_store, jobs, created, removed, serverVars, order, adminVars>>

\* ConversionDispatcher::validate_conversion(from, to, engine).
RegistryValidate(from, to, engine) ==
    /\ ret' = Call("validate_conversion", 0, "",
                   [from |-> from, to |-> to, engine |-> engine],
                   validate_conversion(engines, order, from, to, engine))
    /\ UNCHANGED <<now, issued, job_store, jobs, created, removed, serverVars, registryVars, adminVars>>

NextRegistry ==
    \/ \E e \in RegisterArgs : RegistryRegister(e)
    \/ \E f \in FromArgs, t \in ToArgs, e \in EngineArgs : RegistryValidate(f, t, e)

SpecRegistry == InitRegistry /\ [][NextRegistry]_vars

\* ------------------------------- actions of POST /jobs (routes/jobs.rs)

\* filename.rsplit('.').next().unwrap_or(""): what follows the last dot, the
\* whole name when it has no dot.
rsplit_extension(filename) ==
    CASE filename = "report.md" -> "md"
      [] filename = "REPORT.MD" -> "MD"
      [] filename = "report." -> ""
      [] OTHER -> filename

\* The "file" field of a form: its file_name, and whether its bytes were
\* read, could not be read, or exceed max_file_size.
FileFields ==
    { [file_name |-> Some(n), data |-> "ok"] : n \in {"report.md", "REPORT.MD", "notes", "report."} }
    \cup { [file_name |-> None, data |-> "ok"],
           [file_name |-> Some("report.md"), data |-> "unreadable"],
           [file_name |-> Some("report.md"), data |-> "too_large"] }

\* The multipart forms POST /jobs is called with; a field is None when the
\* form does not have it. Every kind of file field comes with one target
\* and no engine, and one good file with every target and with every engine.
Forms ==
    [ file : {None} \cup {Some(f) : f \in FileFields},
      target_format : {Some("pdf")},
      engine : {None} ]
    \cup
    [ file : {Some([file_name |-> Some("report.md"), data |-> "ok"])},
      target_format : {None, Some("PDF"), Some("zzz")},
      engine : {None} ]
    \cup
    [ file : {Some([file_name |-> Some("report.md"), data |-> "ok"])},
      target_format : {Some("pdf"), Some("zzz")},
      engine : {Some(""), Some("pandoc"), Some("imagemagick"), Some("nosuch")} ]

\* ApiResponse::error(code, message, details).
ApiResponse_error(code, message, details) ==
    Outcome(code, Some([message |-> message, details |-> details]))

\* create_job up to the call of the dispatcher: the error it returns, or the
\* arguments it goes on with.
create_job_parse(m, ord, form) ==
    LET file_data == IF is_some(form.file) /\ form.file[1].data = "ok"
                     THEN Some("bytes") ELSE None
        filename == IF is_some(form.file) THEN form.file[1].file_name ELSE None
        target_format == IF is_some(form.target_format)
                         THEN Some(to_lowercase(form.target_format[1])) ELSE None
        engine == IF form.engine = Some("") THEN None ELSE form.engine
        source_format == to_lowercase(rsplit_extension(filename[1]))
        validation == validate_conversion(m, ord, source_format, target_format[1], engine)
    IN IF is_some(form.file) /\ form.file[1].data = "too_large"
       THEN ApiResponse_error("FILE_TOO_LARGE", "File size exceeds maximum allowed", None)
       ELSE IF file_data = None
       THEN ApiResponse_error("MISSING_FILE", "No file provided", None)
       ELSE IF filename = None
       THEN ApiResponse_error("MISSING_FILENAME", "File must have a filename", None)
       ELSE IF target_format = None
       THEN ApiResponse_error("MISSING_TARGET_FORMAT", "target_format is required", None)
       ELSE IF source_format = ""
       THEN ApiResponse_error("INVALID_FILENAME", "Cannot determine file format from filename", None)
       ELSE IF ~validation.valid
       THEN ApiResponse_error("UNSUPPORTED_CONVERSION", validation.reason,
                              Some([suggestions |-> validation.suggestions]))
       ELSE Outcome("OK", [ filename |-> filename[1],
                            source_format |-> source_format,
                            target_format |-> target_format[1],
                            selected_engine |-> validation.engine ])

\* Faulty variant of create_job: the job is created before the form is
\* validated.
RoutesCreateJob_CreateFirst(user_id, form, saved) ==
    /\ issued < MaxRouteJobs
    /\ LET parsed == create_job_parse(engines, order, form)
           id == issued + 1
           r == Dispatcher_create_job(job_store, id, now, user_id, "", "", "", "", None)
       IN /\ job_store' = r.store
          /\ issued' = id
          /\ created' = created
          /\ ret' = Call("routes_create_job", id, user_id, form,
                         IF parsed.code # "OK" THEN parsed
                         ELSE IF saved THEN Outcome("OK", [job_id |-> id, status |-> "pending"])
                         ELSE ApiResponse_error("STORAGE_ERROR", "Failed to save file", None))
    /\ UNCHANGED <<now, jobs, removed, serverVars, registryVars, adminVars>>

\* POST /jobs: the form is parsed and validated, the dispatcher creates the
\* job, and the upload is saved (saved tells whether create_dir_all and
\* write succeed); nothing queues the job.
RoutesCreateJob(user_id, form, saved) ==
    /\ create_job_parse(engines, order, form).code = "OK" => issued < MaxRouteJobs
    /\ LET parsed == create_job_parse(engines, order, form)
           id == issued + 1
           a == parsed.body
           r == Dispatcher_create_job(job_store, id, now, user_id, a.filename,
                                      a.source_format, a.target_format,
                                      a.selected_engine, None)
       IN IF parsed.code # "OK"
          THEN /\ ret' = Call("routes_create_job", 0, user_id, form, parsed)
               /\ UNCHANGED <<job_store, issued, created>>
          ELSE /\ job_store' = r.store
               /\ issued' = id
               /\ created' = Put(created, id, a)
               /\ ret' = Call("routes_create_job", id, user_id, form,
                              IF saved
                              THEN Outcome("OK", [job_id |-> id, status |-> "pending"])
                              ELSE ApiResponse_error("STORAGE_ERROR", "Failed to save file", None))
    /\ UNCHANGED <<now, jobs, removed, serverVars, registryVars, adminVars>>

\* POST /jobs, by any caller with any form.
NextRoutes ==
    \E u \in Users, form \in Forms, saved \in BOOLEAN : RoutesCreateJob(u, form, saved)

SpecRoutes == InitRegistry /\ [][NextRoutes]_vars

\* ----------------- actions of POST /admin/cleanup (routes/admin.rs)

\* run_cleanup: let max_age_hours = 24.
max_age_hours == 24

FileIds == 1..MaxFiles

\* The directory a file lies under: config.upload_dir or config.output_dir.
dir_of(f) == IF f % 2 = 1 THEN "upload" ELSE "output"

\* The files left by earlier conversions: last modified 25 or 24 hours
\* before the clock starts, each with a length of its own.
FileStates ==
    { [f \in FileIds |-> [modified |-> m[f], len |-> f]] : m \in [FileIds -> {0 - 25, 0 - 24}] }

\* fs::read_dir(dir): the entries of the directory, in the order the loop
\* of cleanup_old_files_recursive takes them.
read_dir(fs, dir) ==
    LET S == {f \in DOMAIN fs : dir_of(f) = dir}
    IN [i \in 1..Cardinality(S) |-> CHOOSE f \in S : Cardinality({g \in S : g < f}) = i - 1]

\* A run_cleanup call: the directory it walks (or "done"), the now its
\* cleanup_old_files took, the entries still to visit, whether the entry at
\* hand was found older than max_age, its counters, and (history) the
\* files it has counted as removed.
Sweep(pc, t, todo) ==
    [ pc |-> pc, now |-> t, todo |-> todo, old |-> FALSE,
      files_removed |-> 0, bytes_freed |-> 0, counted |-> {} ]

\* run_cleanup up to the loop over upload_dir: the role and confirm checks,
\* then cleanup_old_files(upload_dir) takes now and reads the directory.
RunCleanup(is_admin, confirm) ==
    /\ (is_admin /\ confirm) => Len(sweeps) < MaxSweeps
    /\ IF ~is_admin
       THEN /\ ret' = Call("run_cleanup", 0, "", [is_admin |-> is_admin, confirm |-> confirm],
                           Outcome("Unauthorized", None))
            /\ sweeps' = sweeps
       ELSE IF ~confirm
       THEN /\ ret' = Call("run_cleanup", 0, "", [is_admin |-> is_admin, confirm |-> confirm],
                           Outcome("BadRequest", None))
            /\ sweeps' = sweeps
       ELSE /\ sweeps' = Append(sweeps, Sweep("upload", now, read_dir(files, "upload")))
            /\ ret' = Call("run_cleanup", Len(sweeps) + 1, "",
                           [is_admin |-> is_admin, confirm |-> confirm], None)
    /\ UNCHANGED <<now, issued, job_store, jobs, created, removed, serverVars, registryVars, files>>

\* cleanup_old_files_recursive, one entry: entry.metadata() fails for a
\* file that is gone and ends the walk of this directory; a file whose age
\* exceeds max_age goes on to remove_file, any other is left.
CleanupMetadata(k) ==
    /\ sweeps[k].pc \in {"upload", "output"}
    /\ sweeps[k].todo # <<>>
    /\ ~sweeps[k].old
    /\ LET f == Head(sweeps[k].todo)
           age == sweeps[k].now - files[f].modified
       IN /\ sweeps' = IF f \notin DOMAIN files
                       THEN [sweeps EXCEPT ![k].todo = <<>>]
                       ELSE IF age > max_age_hours
                       THEN [sweeps EXCEPT ![k].old = TRUE]
                       ELSE [sweeps EXCEPT ![k].todo = Tail(sweeps[k].todo)]
          /\ ret' = Call("cleanup_old_files", k, "", "metadata", f)
    /\ UNCHANGED <<now, issued, job_store, jobs, created, removed, serverVars, registryVars, files>>

\* cleanup_old_files_recursive, fs::remove_file of the entry at hand: the
\* counters go up only when the removal succeeds.
CleanupRemoveFile(k) ==
    /\ sweeps[k].pc \in {"upload", "output"}
    /\ sweeps[k].old
    /\ LET f == Head(sweeps[k].todo)
           ok == f \in DOMAIN files
       IN /\ files' = IF ok THEN Remove(files, f) ELSE files
          /\ sweeps' = IF ok
                       THEN [sweeps EXCEPT ![k].todo = Tail(sweeps[k].todo),
                                           ![k].old = FALSE,
                                           ![k].files_removed = sweeps[k].files_removed + 1,
                                           ![k].bytes_freed = sweeps[k].bytes_freed + files[f].len,
                                           ![k].counted = sweeps[k].counted \cup {f}]
                       ELSE [sweeps EXCEPT ![k].todo = Tail(sweeps[k].todo),
                                           ![k].old = FALSE]
          /\ ret' = Call("cleanup_old_files", k, "", "remove_file", ok)
    /\ UNCHANGED <<now, issued, job_store, jobs, created, removed, serverVars, registryVars>>

\* run_cleanup goes from upload_dir to output_dir: cleanup_old_files takes
\* now again and reads the directory.
CleanupOutputDir(k) ==
    /\ sweeps[k].pc = "upload"
    /\ sweeps[k].todo = <<>>
    /\ sweeps' = [sweeps EXCEPT ![k].pc = "output",
                                ![k].now = now,
                                ![k].todo = read_dir(files, "output")]
    /\ ret' = Call("cleanup_old_files", k, "", "read_dir", None)
    /\ UNCHANGED <<now, issued, job_store, jobs, created, removed, serverVars, registryVars, files>>

\* run_cleanup answers with the PurgeResponse.
RunCleanupResponse(k) ==
    /\ sweeps[k].pc = "output"
    /\ sweeps[k].todo = <<>>
    /\ sweeps' = [sweeps EXCEPT ![k].pc = "done"]
    /\ ret' = Call("run_cleanup", k, "", "PurgeResponse",
                   [ success |-> TRUE,
                     files_removed |-> sweeps[k].files_removed,
                     bytes_freed |-> sweeps[k].bytes_freed ])
    /\ UNCHANGED <<now, issued, job_store, jobs, created, removed, serverVars, registryVars, files>>

\* The directories as the server finds them, and no cleanup running.
InitAdmin ==
    /\ InitStores
    /\ engines = <<>>
    /\ order = <<>>
    /\ files \in FileStates
    /\ sweeps = <<>>

NextAdmin ==
    \/ \E is_admin \in BOOLEAN, confirm \in BOOLEAN : RunCleanup(is_admin, confirm)
    \/ \E k \in DOMAIN sweeps : CleanupMetadata(k)
    \/ \E k \in DOMAIN sweeps : CleanupRemoveFile(k)
    \/ \E k \in DOMAIN sweeps : CleanupOutputDir(k)
    \/ \E k \in DOMAIN sweeps : RunCleanupResponse(k)
    \/ Tick

SpecAdmin == InitAdmin /\ [][NextAdmin]_vars

\* ---------------------------------------------------------- claims

Terminal == {"Completed", "Failed"}

\* C1: once a job's status is Completed or Failed, no later update_status,
\* update_progress, complete_job or fail_job on it changes any field of the
\* stored record (every step leaves a terminal record as it was).
C1_TerminalRecordFrozen ==
    [][ \A id \in DOMAIN jobs :
            jobs[id].status \in Terminal
            => (id \in DOMAIN jobs' /\ jobs'[id] = jobs[id]) ]_vars

\* C2: a job's status only changes along Pending -> Processing -> Completed
\* or Pending -> Processing -> Failed: no step leaves a terminal state, goes
\* back from Processing to Pending, or reaches a terminal state from Pending.
C2_StatusFollowsStateMachine ==
    [][ \A id \in (DOMAIN jobs) \cap (DOMAIN jobs') :
            jobs'[id].status # jobs[id].status
            => <<jobs[id].status, jobs'[id].status>> \in
                   { <<"Pending", "Processing">>,
                     <<"Processing", "Completed">>,
                     <<"Processing", "Failed">> } ]_vars

\* C3: after fail(id, m) followed by complete(id, f) on a job that had no
\* output yet, the stored record has status Failed, output_filename unset and
\* error_message m.
C3_FailThenCompleteStaysFailed ==
    [][ ( /\ ret.op = "fail_job"
          /\ ret'.op = "complete_job"
          /\ ret'.id = ret.id
          /\ ret.id \in DOMAIN job_store.jobs
          /\ job_store.jobs[ret.id].output_filename = None )
        => ( /\ ret.id \in DOMAIN job_store'.jobs
             /\ job_store'.jobs[ret.id].status = "Failed"
             /\ job_store'.jobs[ret.id].output_filename = None
             /\ job_store'.jobs[ret.id].error_message = Some(ret.arg) ) ]_vars

\* The caller that created job id.
Creator(id) == created[id].user_id

\* C4: get_user_job(id, owner) returns None for every owner other than the
\* one that created the job, in every reachable state, also while the job
\* exists.
C4_GetUserJobHidesForeignJobs ==
    \A id \in DOMAIN created, u \in Users :
        u # Creator(id) => Dispatcher_get_user_job(job_store, id, u) = None

\* C4's case: a job is in the store, its creator gets it and another caller
\* gets None.
C4_Witness ==
    \E id \in DOMAIN job_store.jobs, u \in Users :
        /\ u # Creator(id)
        /\ Dispatcher_get_user_job(job_store, id, u) = None
        /\ Dispatcher_get_user_job(job_store, id, Creator(id)) = Some(job_store.jobs[id])

\* C5: for a caller who does not own job J, every job read (status query,
\* result download, GraphQL job query) has the outcome it would have if J
\* were not in the store.
C5_ForeignLookupIsLikeUnknown ==
    \A id \in DOMAIN jobs, u \in Users :
        u # jobs[id].user_id
        => /\ get_job_status(jobs, u, id) = get_job_status(Remove(jobs, id), u, id)
           /\ download_job_result(jobs, u, TRUE, id)
                  = download_job_result(Remove(jobs, id), u, TRUE, id)
           /\ QueryRoot_job(jobs, id) = QueryRoot_job(Remove(jobs, id), id)

\* Whether job id is in the job map with owner u as its creator.
Owned(id, u) == id \in DOMAIN job_store.jobs /\ id \in DOMAIN created /\ Creator(id) = u

\* C6: delete_job(id, owner) returns false and leaves the job map and the
\* owner index unchanged when the job does not exist or owner did not create
\* it; it returns true only when the job exists and owner created it.
C6_DeleteRefusesForeignAndUnknown ==
    [][ ret'.op = "delete_job"
        => /\ ~Owned(ret'.id, ret'.user) => (ret'.val = FALSE /\ job_store' = job_store)
           /\ ret'.val = TRUE => Owned(ret'.id, ret'.user) ]_vars

\* C6's case: a delete by a caller who is not the creator has returned false
\* and the job is still there.
C6_Witness ==
    /\ ret.op = "delete_job"
    /\ ret.val = FALSE
    /\ ret.id \in DOMAIN job_store.jobs
    /\ Creator(ret.id) # ret.user

\* How often id occurs in the vector v.
Count(v, id) == Cardinality({i \in DOMAIN v : v[i] = id})

\* The owner index's vector for u (empty when u has no entry).
IndexOf(u) == IF u \in DOMAIN job_store.user_jobs THEN job_store.user_jobs[u] ELSE <<>>

\* C7: in every state a reader can observe, id is listed under u in the
\* owner index iff the job map holds a record with that id whose owner is u,
\* and then it is listed exactly once.
C7_IndexAgreesWithJobMap ==
    \A u \in Users, id \in JobIds :
        LET held == id \in DOMAIN job_store.jobs /\ job_store.jobs[id].user_id = u
        IN Count(IndexOf(u), id) = (IF held THEN 1 ELSE 0)

\* C7's case: a delete has removed one job of a caller who still has another.
C7_Witness ==
    /\ ret.op = "delete_job"
    /\ ret.val = TRUE
    /\ IndexOf(ret.user) # <<>>
    /\ ret.id \notin DOMAIN job_store.jobs

\* The fields of the record create must hand back unchanged, for request req.
MatchesRequest(job, req) ==
    /\ job.status = "Pending"
    /\ job.output_filename = None
    /\ job.error_message = None
    /\ job.completed_at = None
    /\ job.user_id = req.user_id
    /\ job.original_filename = req.original_filename
    /\ job.source_format = req.source_format
    /\ job.target_format = req.target_format
    /\ job.engine = req.engine
    /\ job.options = req.options

ListedIds(u) ==
    LET l == Dispatcher_list_user_jobs(job_store, u) IN {l[i].id : i \in DOMAIN l}

\* C9: list_user_jobs(owner) returns exactly the jobs owner created that
\* have not been removed, each once and as stored, and none of another
\* owner; after one create by alice, bob's list is empty and alice's holds
\* exactly one Pending job.
C9_ListIsOwnLiveJobs ==
    /\ \A u \in Users :
          LET l == Dispatcher_list_user_jobs(job_store, u)
              own == {id \in (DOMAIN created) \ removed : Creator(id) = u}
          IN /\ ListedIds(u) = own
             /\ Len(l) = Cardinality(own)
             /\ \A i \in DOMAIN l : l[i] = job_store.jobs[l[i].id]
    /\ (ret.op = "create_job" /\ issued = 1 /\ ret.user = "alice")
       => /\ Dispatcher_list_user_jobs(job_store, "bob") = <<>>
          /\ Len(Dispatcher_list_user_jobs(job_store, "alice")) = 1
          /\ Dispatcher_list_user_jobs(job_store, "alice")[1].status = "Pending"

\* C9's case: alice and bob each list one job of their own, after a third
\* party's delete attempts and status changes.
C9_Witness ==
    /\ ListedIds("alice") # {}
    /\ ListedIds("bob") # {}
    /\ ListedIds("alice") \cap ListedIds("bob") = {}

\* C10: in every reachable state of the store, a job whose status is
\* Completed has its output file set.
C10_CompletedHasOutput ==
    \A id \in DOMAIN jobs :
        jobs[id].status = "Completed" => is_some(jobs[id].output_file)

\* C11: in every reachable state of the store, completed_at is set if and
\* only if the status is Completed or Failed.
C11_CompletedAtIffTerminal ==
    \A id \in DOMAIN jobs :
        is_some(jobs[id].completed_at) <=> jobs[id].status \in Terminal

\* C12: a job's progress is always in 0..100 and no step makes the progress
\* of a job that is not terminal smaller than it was.
C12_ProgressBoundedAndMonotone ==
    [][ \A id \in (DOMAIN jobs) \cap (DOMAIN jobs') :
            /\ jobs'[id].progress \in 0..100
            /\ jobs[id].status \notin Terminal
               => jobs'[id].progress >= jobs[id].progress ]_vars

C14_TerminalStateMatchesOutcome ==
    ( /\ ret.op = "process_conversion"
      /\ ret.arg \in {"complete_job", "fail_job"}
      /\ ret.id \in DOMAIN jobs )
    => LET job == jobs[ret.id]
       IN IF ret.val.ok
          THEN /\ job.status = "Completed"
               /\ job.output_file = Some(ret.val.val)
               /\ job.error_message = None
          ELSE /\ job.status = "Failed"
               /\ is_some(job.error_message)
               /\ job.output_file = None

\* The number of requests sent to the backend for job id.
BackendCalls(id) == IF id \in DOMAIN backend_calls THEN backend_calls[id] ELSE 0

\* C15: for every job the conversion backend is invoked at most once, and
\* at most one process_conversion task is ever started for it.
C15_AtMostOneBackendCall ==
    \A id \in ServerJobIds :
        /\ BackendCalls(id) <= 1
        /\ Cardinality({k \in DOMAIN tasks : tasks[k].job_id = id}) <= 1

\* C15's case: the backend request of a job has failed, the job is Failed
\* and its task is over.
C15_Witness ==
    \E k \in DOMAIN tasks :
        /\ tasks[k].pc = "done"
        /\ tasks[k].result = Some([ok |-> FALSE, val |-> ApiError("request_failed")])
        /\ BackendCalls(tasks[k].job_id) = 1
        /\ tasks[k].job_id \in DOMAIN jobs
        /\ jobs[tasks[k].job_id].status = "Failed"

\* The elements of a Vec.
Elements(v) == {v[i] : i \in DOMAIN v}

\* No element occurs twice in the Vec.
NoDuplicates(v) == \A i, j \in DOMAIN v : v[i] = v[j] => i = j

\* The enabled engines of the table that support (from, to).
Candidates(from, to) ==
    {id \in DOMAIN engines :
        engines[id].available /\ Engine_supports_conversion(engines[id], from, to)}

\* The last call was validate_conversion with no preferred engine.
ResolvedWithoutPreference == ret.op = "validate_conversion" /\ ret.arg.engine = None

\* C16: resolve is deterministic: with no preferred engine and several
\* enabled engines supporting the pair, the engine returned is the one with
\* the smallest id, whatever the iteration order of the table, and so the
\* same on every call.
C16_ResolveBreaksTiesById ==
    ResolvedWithoutPreference
    => LET cands == Candidates(ret.arg.from, ret.arg.to)
       IN /\ ret.val = validate_conversion(engines, order, ret.arg.from, ret.arg.to, None)
          /\ cands # {} => ret.val = Valid(Sorted(cands)[1])

\* C17: with no preferred engine, resolve returns Valid iff some enabled
\* engine supports (from, to), and otherwise Invalid with suggestions that
\* are exactly the de-duplicated union of the outputs every engine offers
\* for from; with pandoc registered as md -> [html, pdf], resolve(md, pdf)
\* is Valid{pandoc} and resolve(md, docx) is Invalid with html and pdf
\* among its suggestions.
C17_ResolveWithoutPreference ==
    /\ ResolvedWithoutPreference
       => /\ ret.val.valid <=> Candidates(ret.arg.from, ret.arg.to) # {}
          /\ ~ret.val.valid
             => /\ Elements(ret.val.suggestions)
                     = UNION {Elements(Engine_output_formats_for(engines[id], ret.arg.from)) :
                                 id \in DOMAIN engines}
                /\ NoDuplicates(ret.val.suggestions)
    /\ engines["pandoc"].conversions = ("md" :> <<"html", "pdf">>)
       => /\ validate_conversion(engines, order, "md", "pdf", None) = Valid("pandoc")
          /\ ~validate_conversion(engines, order, "md", "docx", None).valid
          /\ {"html", "pdf"} \subseteq
                 Elements(validate_conversion(engines, order, "md", "docx", None).suggestions)

\* The format tokens lookups are made with.
FormatArgs == FromArgs \cup ToArgs

\* C18: for every registered engine E and tokens (a, b), supports(E, a, b)
\* is true iff b is, up to letter case, a member of outputs_for(E, a), and
\* both results are the same for tokens that differ in letter case only.
C18_SupportsIffInOutputs ==
    \A id \in DOMAIN engines, a \in FormatArgs, b \in FormatArgs :
        LET E == engines[id]
        IN /\ Engine_supports_conversion(E, a, b)
              <=> (\E o \in Elements(Engine_output_formats_for(E, a)) :
                       to_lowercase(o) = to_lowercase(b))
           /\ \A a2 \in FormatArgs, b2 \in FormatArgs :
                  (to_lowercase(a2) = to_lowercase(a) /\ to_lowercase(b2) = to_lowercase(b))
                  => /\ Engine_supports_conversion(E, a2, b2) = Engine_supports_conversion(E, a, b)
                     /\ Engine_output_formats_for(E, a2) = Engine_output_formats_for(E, a)

\* C19: resolve returns Valid{engine} only for an engine that is registered,
\* enabled and supports (from, to), preferred or not; every registered
\* engine, disabled ones too, is returned by get(id).
C19_DisabledEngineNeverResolved ==
    /\ (ret.op = "validate_conversion" /\ ret.val.valid)
       => ret.val.engine \in Candidates(ret.arg.from, ret.arg.to)
    /\ \A id \in DOMAIN engines : EngineRegistry_get(engines, id) = Some(engines[id])

\* C20: given a preferred engine id that is not registered, resolve returns
\* Invalid, engine not found, with every registered engine id once among the
\* suggestions and nothing else, whether or not another engine supports the
\* pair.
C20_UnknownPreferredEngine ==
    ( /\ ret.op = "validate_conversion"
      /\ is_some(ret.arg.engine)
      /\ ret.arg.engine[1] \notin DOMAIN engines )
    => /\ ~ret.val.valid
       /\ ret.val.reason = <<"not found", ret.arg.engine[1]>>
       /\ Elements(ret.val.suggestions) = DOMAIN engines
       /\ NoDuplicates(ret.val.suggestions)

\* C20's case: an engine that is not registered was preferred for a pair
\* that registered engines support, after the table had been changed.
C20_Witness ==
    /\ ret.op = "validate_conversion"
    /\ ret.arg.engine = Some("nosuch")
    /\ Candidates(ret.arg.from, ret.arg.to) # {}
    /\ "custom" \in DOMAIN engines
    /\ ~ret.val.valid

\* C21: given a registered preferred engine that does not support (from,
\* to), resolve returns Invalid, naming the engine and the pair, with the
\* engine's own outputs for from as the suggestions, whether or not another
\* engine supports the pair.
C21_PreferredEngineUnsupported ==
    ( /\ ret.op = "validate_conversion"
      /\ is_some(ret.arg.engine)
      /\ ret.arg.engine[1] \in DOMAIN engines
      /\ ~Engine_supports_conversion(engines[ret.arg.engine[1]], ret.arg.from, ret.arg.to) )
    => LET conversions == engines[ret.arg.engine[1]].conversions
           key == to_lowercase(ret.arg.from)
       IN /\ ~ret.val.valid
          /\ ret.val.reason = <<"does not support", ret.arg.engine[1], ret.arg.from, ret.arg.to>>
          /\ ret.val.suggestions = IF key \in DOMAIN conversions THEN conversions[key] ELSE <<>>

\* C21's case: the preferred engine has outputs for the source format given
\* in capitals, but not the target, which another engine does support.
C21_Witness ==
    /\ ret.op = "validate_conversion"
    /\ is_some(ret.arg.engine)
    /\ ret.arg.engine[1] \in DOMAIN engines
    /\ ret.arg.from = "MD"
    /\ Candidates(ret.arg.from, ret.arg.to) # {}
    /\ ~ret.val.valid
    /\ ret.val.suggestions # <<>>

\* C24: GET /jobs/{id}/result answers a caller with a result only when the
\* job exists, is owned by the caller and has status Completed; a Pending,
\* Processing or Failed job, or a job of another owner, yields no result.
C24_ResultOnlyWhenCompleted ==
    \A id \in JobIds, u \in Users :
        routes_get_job_result(job_store, u, id, TRUE).code = "OK"
        => /\ id \in DOMAIN job_store.jobs
           /\ job_store.jobs[id].user_id = u
           /\ job_store.jobs[id].status = "Completed"

\* C28: update_progress changes a job's progress only while its status is
\* Processing; on a Pending, Completed or Failed job it leaves every field
\* of the record unchanged.
C28_ProgressOnlyWhileProcessing ==
    [][ \A id \in DOMAIN jobs :
            (ret'.op = "update_progress" /\ ret'.id = id /\ jobs[id].status # "Processing")
            => (id \in DOMAIN jobs' /\ jobs'[id] = jobs[id]) ]_vars

\* C29: in every reachable state a job's output file is set only if its
\* status is Completed and its error_message only if its status is Failed,
\* and no job has both set, under any interleaving of process_conversion
\* and cancel_job.
C29_OutputAndErrorMatchStatus ==
    \A id \in DOMAIN jobs :
        /\ is_some(jobs[id].output_file) => jobs[id].status = "Completed"
        /\ is_some(jobs[id].error_message) => jobs[id].status = "Failed"
        /\ ~(is_some(jobs[id].output_file) /\ is_some(jobs[id].error_message))

\* C26: validate_conversion has no side effects: for every input the engine
\* table (and its iteration order) and both job stores are the same after
\* the call as before it, however the calls are interleaved with each other
\* and with register.
C26_ValidateHasNoSideEffects ==
    [][ ret'.op = "validate_conversion"
        => /\ engines' = engines
           /\ order' = order
           /\ job_store' = job_store
           /\ jobs' = jobs ]_vars

\* C26's case: a validate_conversion call has answered Valid on a table
\* that register has changed before.
C26_Witness ==
    /\ ret.op = "validate_conversion"
    /\ "custom" \in DOMAIN engines
    /\ ret.val.valid

\* C27: register(e) inserts the engine or replaces the one with the same
\* id: afterwards the table holds exactly one engine with e's id and
\* get(e.id) returns e, the engines with other ids are unchanged, and
\* registering e again gives the same table.
C27_RegisterInsertsOrReplaces ==
    [][ ret'.op = "register"
        => \E e \in RegisterArgs :
              /\ e.id = ret'.arg
              /\ EngineRegistry_get(engines', e.id) = Some(e)
              /\ DOMAIN engines' = (DOMAIN engines) \cup {e.id}
              /\ \A id \in (DOMAIN engines) \ {e.id} : engines'[id] = engines[id]
              /\ Cardinality({i \in DOMAIN order' : order'[i] = e.id}) = 1
              /\ Cardinality({i \in DOMAIN order' : EngineRegistry_list(engines', order')[i].id = e.id}) = 1
              /\ EngineRegistry_register(engines', e) = engines' ]_vars

\* C27's case: register has replaced the default pandoc engine by one with
\* a single conversion, and the table has as many entries as before.
C27_Witness ==
    /\ ret.op = "register"
    /\ ret.arg = "pandoc"
    /\ DOMAIN engines["pandoc"].conversions = {"md"}
    /\ Len(order) = Cardinality(DOMAIN engines)

\* C30: every job create_conversion stores eventually reaches Completed or
\* Failed unless it is removed first, given that the backend call returns
\* or times out: no job stays Pending or Processing forever.
C30_EveryJobTerminates ==
    \A id \in ServerJobIds :
        (id \in DOMAIN jobs)
        ~> (id \notin DOMAIN jobs \/ jobs[id].status \in Terminal)

C25_RejectedSubmitCreatesNothing ==
    [][ ret'.op = "routes_create_job"
        => LET form == ret'.arg
               code == ret'.val.code
               complete == /\ is_some(form.file)
                           /\ form.file[1].data = "ok"
                           /\ is_some(form.file[1].file_name)
                           /\ is_some(form.target_format)
               from == to_lowercase(rsplit_extension(form.file[1].file_name[1]))
               engine == IF form.engine = Some("") THEN None ELSE form.engine
               resolved == IF complete /\ from # ""
                           THEN {validate_conversion(engines, order, from,
                                     to_lowercase(form.target_format[1]), engine)}
                           ELSE {}
           IN \A rejected \in {code \notin {"OK", "STORAGE_ERROR"}} :
                 /\ resolved = {} => rejected
                 /\ rejected => /\ job_store' = job_store
                                /\ issued' = issued
                                /\ tasks' = tasks
                 /\ \A v \in resolved :
                        /\ ~v.valid => rejected
                        /\ code = "UNSUPPORTED_CONVERSION"
                           => /\ ~v.valid
                              /\ ret'.val.body[1].message = v.reason
                              /\ ret'.val.body[1].details = Some([suggestions |-> v.suggestions])
                 /\ code = "UNSUPPORTED_CONVERSION" => resolved # {} ]_vars

\* C25's case: a submission for a conversion the preferred engine does not
\* support was rejected with suggestions while the store holds a job.
C25_Witness ==
    /\ ret.op = "routes_create_job"
    /\ ret.val.code = "UNSUPPORTED_CONVERSION"
    /\ ret.arg.engine = Some("pandoc")
    /\ ret.val.body[1].details[1].suggestions # <<>>
    /\ job_store.jobs # <<>>

\* C23: two cleanups never run at the same time: while one run_cleanup is
\* in progress no second one is, and no file is counted as removed by two
\* of them.
C23_SweepsNeverOverlap ==
    /\ Cardinality({k \in DOMAIN sweeps : sweeps[k].pc # "done"}) <= 1
    /\ \A j, k \in DOMAIN sweeps : j # k => sweeps[j].counted \cap sweeps[k].counted = {}

\* C31: whenever POST /jobs answers with an error (a validation error or a
\* storage error while the upload is saved), the job store holds no record
\* for that request: the store is as it was before the call.
C31_FailedSubmitLeavesNoJob ==
    [][ (ret'.op = "routes_create_job" /\ ret'.val.code # "OK")
        => /\ job_store' = job_store
           /\ ret'.id \notin DOMAIN job_store'.jobs ]_vars

C32_CancelOnlyPending ==
    [][ ret'.op = "cancel_job"
        => /\ \A id \in DOMAIN jobs :
                  jobs[id].status # "Pending"
                  => (id \in DOMAIN jobs' /\ jobs'[id] = jobs[id])
           /\ ret'.val = Some(TRUE)
              => /\ ret'.id \in DOMAIN jobs'
                 /\ jobs'[ret'.id].status = "Failed"
                 /\ jobs'[ret'.id].error_message = Some("cancelled") ]_vars

\* C33: no delete or cancel sent by a caller changes or removes a job owned
\* by a different caller: the mutation takes effect only when the job's
\* owner is the caller.
C33_NoCrossOwnerMutation ==
    [][ \A id \in DOMAIN jobs :
            ( /\ ret'.op \in {"delete_job", "cancel_job"}
              /\ ret'.user # jobs[id].user_id )
            => (id \in DOMAIN jobs' /\ jobs'[id] = jobs[id]) ]_vars

\* C34: create_conversion does not wait for process_conversion: when it
\* answers, the job is Pending with its task spawned and not yet started
\* and no request sent to the backend; and a job goes from Pending to
\* Processing only in a step of its process_conversion task.
C34_SubmitDoesNotWait ==
    [][ /\ (ret'.op = "create_conversion" /\ ret'.val = "pending")
           => /\ ret'.id \in DOMAIN jobs'
              /\ jobs'[ret'.id].status = "Pending"
              /\ \E k \in DOMAIN tasks' :
                     tasks'[k].job_id = ret'.id /\ tasks'[k].pc = "update_status"
              /\ ret'.id \notin DOMAIN backend_calls'
        /\ \A id \in DOMAIN jobs :
               ( /\ jobs[id].status = "Pending"
                 /\ id \in DOMAIN jobs'
                 /\ jobs'[id].status = "Processing" )
               => (ret'.op = "process_conversion" /\ ret'.id = id) ]_vars

\* C34's case: create_conversion has answered, the job's task has made it
\* Processing and stands before the backend call, which has not been made.
C34_Witness ==
    \E k \in DOMAIN tasks :
        /\ tasks[k].pc = "convert"
        /\ tasks[k].job_id \in DOMAIN jobs
        /\ jobs[tasks[k].job_id].status = "Processing"
        /\ tasks[k].job_id \notin DOMAIN backend_calls

\* The fields of a dispatcher record that are fixed at creation.
CreationFields(job) ==
    <<job.user_id, job.original_filename, job.source_format,
      job.target_format, job.engine, job.options, job.created_at>>

\* C35: owner, original_filename, source_format, target_format, engine_id,
\* options and created_at of a job never change after creation: a record
\* entering the store carries the values passed to create and the time of the
\* call, and every step that keeps a record in the store leaves these seven
\* fields as they were.
C35_CreationFieldsNeverChange ==
    [][ \A id \in DOMAIN job_store'.jobs :
          IF id \in DOMAIN job_store.jobs
          THEN CreationFields(job_store'.jobs[id]) = CreationFields(job_store.jobs[id])
          ELSE /\ id \in DOMAIN created'
               /\ CreationFields(job_store'.jobs[id])
                    = <<created'[id].user_id, created'[id].original_filename,
                        created'[id].source_format, created'[id].target_format,
                        created'[id].engine, created'[id].options, now>> ]_vars

\* C35's case: a job created with options has been failed, and another has
\* been completed.
C35_Witness ==
    \E a, b \in DOMAIN job_store.jobs :
        /\ job_store.jobs[a].status = "Failed"
        /\ is_some(job_store.jobs[a].options)
        /\ job_store.jobs[b].status = "Completed"

\* The file names of the forms that have no trailing extension: no dot, or
\* nothing after the last dot.
NoTrailingExtension == {"notes", "report."}

\* C36: a submit that has its file, its file name and its target format, and
\* whose file name has no trailing extension, returns the "cannot determine
\* format" error and creates no job; any other submit that creates a job
\* stores the lowercase text after the last dot as source_format.
C36_NoExtensionIsInvalidFilename ==
    (/\ ret.op = "routes_create_job"
     /\ is_some(ret.arg.file)
     /\ ret.arg.file[1].data = "ok"
     /\ is_some(ret.arg.file[1].file_name)
     /\ is_some(ret.arg.target_format))
    => IF ret.arg.file[1].file_name[1] \in NoTrailingExtension
       THEN /\ ret.val.code = "INVALID_FILENAME"
            /\ ret.id = 0
       ELSE ret.id \in DOMAIN job_store.jobs
            => job_store.jobs[ret.id].source_format = "md"

C39_CloneSharesJobStore ==
    LET clone == ConversionDispatcher_clone(job_store)
    IN /\ \A id \in JobIds : Dispatcher_get_job(clone, id) = Dispatcher_get_job(job_store, id)
       /\ \A u \in Users : Dispatcher_list_user_jobs(clone, u) = Dispatcher_list_user_jobs(job_store, u)

====
